---- MODULE Spec2Model ----
(***************************************************************************)
(* A model of telegram_weather_bot.py (class WeatherBot): the location     *)
(* resolver get_best_location / get_location, the response formatters, and *)
(* the command handlers start, help, weather and weather_forecast as they  *)
(* run on the dispatcher's single-threaded event loop.                     *)
(*                                                                         *)
(* Python values.  None (and JSON null) is the empty tuple <<>>, any other *)
(* value v is the one-element tuple <<v>>.  A dict is a function whose     *)
(* DOMAIN is the set of keys that are present, so that "key missing" and   *)
(* "key present with value null" stay two different inputs, as they are    *)
(* for dict.get.  An exception raised by a function is the result          *)
(* [raised |-> TRUE]; a normal return is [raised |-> FALSE, value |-> v].  *)
(*                                                                         *)
(* Environment.  The Telegram side (update.message.reply_text) is taken    *)
(* to deliver: a reply is an append to the command's reply log followed by *)
(* a suspension of the task until the send completes.  Every call to the   *)
(* weather provider (httpx.Client.get) may fail in each of the ways the    *)
(* handlers distinguish.                                                   *)
(***************************************************************************)
EXTENDS Integers, Sequences, FiniteSets, TLC

VARIABLES
    \* ---- the command handlers on the event loop ----
    pc,            \* pc[t]: where task t stands in its handler
    cmd,           \* cmd[t]: the command task t handles (name, age, args)
    replies,       \* replies[t]: the reply_text calls made for cmd[t]
    calls,         \* calls[t]: the provider endpoints requested for cmd[t]
    resp,          \* resp[t]: how each provider call of cmd[t] ended
    location,      \* handler local `location`
    weather_data,  \* handler local `weather_data` (the decoded payload)
    running,       \* the task that holds the event loop's thread, or None
    \* ---- the pure functions, called on their own ----
    unit_pc,       \* which pure function has been applied
    locations,     \* argument of get_best_location
    best_location, \* its result
    forecast_data, \* argument of format_forecast_response
    forecast_response  \* its result

vars == <<pc, cmd, replies, calls, resp, location, weather_data, running,
          unit_pc, locations, best_location, forecast_data, forecast_response>>

handler_vars == <<pc, cmd, replies, calls, resp, location, weather_data, running>>
unit_vars == <<unit_pc, locations, best_location, forecast_data, forecast_response>>

-----------------------------------------------------------------------------
(* Bounds of the model *)

\* longest candidate list handed to get_best_location
MaxLocs == 3
\* largest preference value of a candidate
MaxPref == 2
\* longest day list the provider returns (the handler keeps DAYS_TO_FORECAST)
MaxDays == 4
\* number of tasks the dispatcher has at one time
NumTasks == 2
\* longest day list handed to format_forecast_response on its own
MaxFmtDays == 2

(* Program constants *)
OLD_MESSAGE_SECONDS_AGE == 60
DAYS_TO_FORECAST == 3

-----------------------------------------------------------------------------
(* Python values *)

None == <<>>
Some(v) == <<v>>
Val(o) == o[1]

\* dict.get(k): the value, None when the key is missing
Get(d, k) == IF k \in DOMAIN d THEN d[k] ELSE None
\* dict.get(k, default)
GetD(d, k, default) == IF k \in DOMAIN d THEN d[k] ELSE default

\* the empty dict
EmptyDict == [k \in {} |-> None]

\* truth value of an optional integer: None and 0 are false
TruthyInt(o) == o # None /\ Val(o) # 0

\* f"{v}" of an optional integer
StrInt(o) == IF o = None THEN "None" ELSE ToString(Val(o))

Returned(v) == [raised |-> FALSE, value |-> v]
Raised == [raised |-> TRUE]

-----------------------------------------------------------------------------
(* get_best_location *)

\* get_preference, the key of min(): location["preference"]
get_preference(loc) == Val(loc["preference"])

RECURSIVE MinFrom(_, _, _)
MinFrom(seq, i, cur) ==
    IF i > Len(seq) THEN cur
    ELSE MinFrom(seq, i + 1,
                 IF get_preference(seq[i]) < get_preference(cur) THEN seq[i] ELSE cur)

RECURSIVE MinFromLast(_, _, _)
MinFromLast(seq, i, cur) ==
    IF i > Len(seq) THEN cur
    ELSE MinFromLast(seq, i + 1,
                     IF get_preference(seq[i]) <= get_preference(cur) THEN seq[i] ELSE cur)

\* a min() that keeps the last of several minima
PyMin_last(seq) == MinFromLast(seq, 2, seq[1])

\* min(valid_locations, key=get_preference): the first minimal element
PyMin(seq) == MinFrom(seq, 2, seq[1])

\* the filter of valid_locations
IsValidLocation(loc) ==
    Get(loc, "preference") # None /\ Val(Get(loc, "preference")) > 0

\* a resolver without the "use the first result" fallback
get_best_location_nofallback(locs) ==
    IF locs = <<>> THEN None
    ELSE IF Len(locs) = 1 THEN Some(locs[1])
    ELSE LET valid_locations == SelectSeq(locs, IsValidLocation)
         IN  IF valid_locations = <<>> THEN None
             ELSE Some(PyMin(valid_locations))

get_best_location(locs) ==
    IF locs = <<>> THEN None
    ELSE IF Len(locs) = 1 THEN Some(locs[1])
    ELSE LET valid_locations == SelectSeq(locs, IsValidLocation)
         IN  IF valid_locations = <<>> THEN Some(locs[1])
             ELSE Some(PyMin(valid_locations))

-----------------------------------------------------------------------------
(* Candidate lists *)

\* what a candidate's "preference" can be: key missing, null, or an integer
PrefChoices == {"missing", "null"} \cup {ToString(p) : p \in -1..MaxPref}

PrefOf(choice) ==
    IF choice = "null" THEN None
    ELSE Some(CHOOSE p \in -1..MaxPref : ToString(p) = choice)

\* a candidate of a search result; a name is the sequence of its words
MkLocation(id, name, choice) ==
    LET base == [id |-> id, name |-> name, countryName |-> Some(<<"UK">>)]
    IN  IF choice = "missing" THEN base
        ELSE base @@ ("preference" :> PrefOf(choice))

\* a result list with distinct provider ids, one per position
LocationList(choices) ==
    [i \in 1..Len(choices) |->
        MkLocation(Some(100 + i), Some(<<"New", "Town">>), choices[i])]

SeqsUpTo(S, n) == UNION {[1..k -> S] : k \in 0..n}

-----------------------------------------------------------------------------
(* Strings.  A text with spaces is kept as the sequence of its words, so   *)
(* that str.join and str.replace(' ', '-') are computed, not assumed.      *)

RECURSIVE Join(_, _)
\* sep.join(words)
Join(words, sep) ==
    IF words = <<>> THEN ""
    ELSE IF Len(words) = 1 THEN words[1]
    ELSE words[1] \o sep \o Join(Tail(words), sep)

-----------------------------------------------------------------------------
(* emoji_mappings.py *)

EMOJI_MAPPINGS ==
    [ clear_day |-> "sun", clear_night |-> "moon", rain |-> "umbrella",
      snow |-> "snowflake", sleet |-> "snowflake", wind |-> "wind-face",
      fog |-> "fog", cloudy |-> "cloud", partly_cloudy_day |-> "sun-behind-cloud",
      partly_cloudy_night |-> "moon", hail |-> "umbrella",
      thunderstorm |-> "thunder-cloud", tornado |-> "tornado" ]

FORECA_EMOJI_MAPPINGS ==
    [ d000 |-> EMOJI_MAPPINGS.clear_day,
      d100 |-> EMOJI_MAPPINGS.partly_cloudy_day,
      d200 |-> EMOJI_MAPPINGS.partly_cloudy_day,
      d210 |-> EMOJI_MAPPINGS.rain,
      d220 |-> EMOJI_MAPPINGS.rain,
      d300 |-> EMOJI_MAPPINGS.partly_cloudy_day,
      d310 |-> EMOJI_MAPPINGS.cloudy,
      d320 |-> EMOJI_MAPPINGS.rain,
      d340 |-> EMOJI_MAPPINGS.thunderstorm,
      d400 |-> EMOJI_MAPPINGS.cloudy,
      d420 |-> EMOJI_MAPPINGS.rain,
      d430 |-> EMOJI_MAPPINGS.thunderstorm,
      n000 |-> EMOJI_MAPPINGS.clear_night,
      n100 |-> EMOJI_MAPPINGS.cloudy,
      n200 |-> EMOJI_MAPPINGS.cloudy,
      n210 |-> EMOJI_MAPPINGS.rain,
      n220 |-> EMOJI_MAPPINGS.rain,
      n300 |-> EMOJI_MAPPINGS.cloudy,
      n320 |-> EMOJI_MAPPINGS.rain,
      n400 |-> EMOJI_MAPPINGS.cloudy,
      n420 |-> EMOJI_MAPPINGS.rain,
      n430 |-> EMOJI_MAPPINGS.thunderstorm ]

\* FORECA_EMOJI_MAPPINGS.get(d.get('symb', ''), unknown glyph)
Conditions(d) ==
    LET symb == GetD(d, "symb", Some(""))
    IN  IF symb # None /\ Val(symb) \in DOMAIN FORECA_EMOJI_MAPPINGS
        THEN FORECA_EMOJI_MAPPINGS[Val(symb)]
        ELSE "question-mark"

-----------------------------------------------------------------------------
(* build_foreca_web_url *)

FORECA_WEB_URL == "https://www.foreca.com"

\* None when id or name is missing, null or empty (name None: the
\* AttributeError of None.replace is caught and None returned)
build_foreca_web_url(location_data) ==
    LET loc_id == Get(location_data, "id")
        name == GetD(location_data, "name", Some(<<>>))
    IN  IF name = None THEN None
        ELSE LET location_name == Join(Val(name), "-")
             IN  IF TruthyInt(loc_id) /\ location_name # ""
                 THEN Some(FORECA_WEB_URL \o "/" \o StrInt(loc_id) \o "/" \o location_name)
                 ELSE None

\* f"{location.get(key, default)}" of a text field
StrText(d, key, default) ==
    LET v == GetD(d, key, Some(<<default>>))
    IN  IF v = None THEN "None" ELSE Join(Val(v), " ")

-----------------------------------------------------------------------------
(* format_forecast_response *)

\* strftime('%A') of strptime(date, '%Y-%m-%d'); a date is <<year, month, day>>
WeekdayNames == <<"Sunday", "Monday", "Tuesday", "Wednesday", "Thursday",
                  "Friday", "Saturday">>
MonthOffset == <<0, 3, 2, 5, 0, 3, 5, 1, 4, 6, 2, 4>>
DayName(date) ==
    LET y == IF date[2] < 3 THEN date[1] - 1 ELSE date[1]
        w == (y + (y \div 4) - (y \div 100) + (y \div 400)
                + MonthOffset[date[2]] + date[3]) % 7
    IN  WeekdayNames[w + 1]

\* a day whose line cannot be built: strptime of a missing ('Unknown date')
\* or null date raises, and so does None > 0
DayRaises(day) ==
    \/ Get(day, "date") = None
    \/ GetD(day, "rainp", Some(0)) = None

\* f"{day.get(key, 'N/A')}" of tmin / tmax
StrTemp(day, key) == IF key \in DOMAIN day THEN StrInt(day[key]) ELSE "N/A"

\* the line of the i-th day (i = 1 is the loop's index 0)
ForecastLine(day, i) ==
    LET rainp == GetD(day, "rainp", Some(0))
    IN  [ day_name   |-> DayName(Val(day["date"]))
                           \o (IF i = 1 THEN " (today)" ELSE ""),
          conditions |-> Conditions(day),
          temps      |-> StrTemp(day, "tmin") \o "°C - " \o StrTemp(day, "tmax") \o "°C",
          currently  |-> IF i = 1 THEN " (currently " \o StrTemp(day, "tmax") \o "°C)"
                         ELSE "",
          rain_str   |-> IF Val(rainp) > 0 THEN StrInt(rainp) \o "% chance of rain"
                         ELSE "" ]

format_forecast_response(loc, data) ==
    IF data = <<>> THEN Returned([kind |-> "no_forecast"])
    ELSE IF \E i \in 1..Len(data) : DayRaises(data[i]) THEN Raised
    ELSE Returned([ kind   |-> "forecast",
                    header |-> "3-day Forecast for " \o StrText(loc, "name", "Unknown")
                                 \o ", " \o StrText(loc, "countryName", "Unknown") \o ":",
                    lines  |-> [i \in 1..Len(data) |-> ForecastLine(data[i], i)] ])

-----------------------------------------------------------------------------
(* format_weather_response *)

\* f"{x * 3.6:.1f}" of a whole number of metres per second
Kmh(ms) == ToString((ms * 36) \div 10) \o "." \o ToString((ms * 36) % 10)

format_weather_response(loc, current, summary) ==
    IF DOMAIN current = {} THEN [kind |-> "no_weather"]
    ELSE
    LET temp == Get(current, "temp")
        feels_like == Get(current, "flike")
        humidity == Get(current, "rhum")
        rain_prob == Get(current, "rainp")
        wind_speed == Get(current, "winds")
        wind_gusts == Get(current, "maxwind")
        web_url == build_foreca_web_url(loc)
    IN  [ kind   |-> "weather",
          header |-> "Weather for " \o StrText(loc, "name", "Unknown Location")
                       \o ", " \o StrText(loc, "countryName", "Unknown Country") \o ":",
          temperature |->
              (IF temp # None THEN StrInt(temp) \o "°C" ELSE "Temperature unavailable")
              \o (IF feels_like # None /\ feels_like # temp
                  THEN " (feels like " \o StrInt(feels_like) \o "°C)" ELSE ""),
          conditions |-> Conditions(current),
          humidity |-> IF humidity # None THEN StrInt(humidity) \o "%"
                       ELSE "Humidity unavailable",
          wind |->
              IF wind_speed # None
              THEN Kmh(Val(wind_speed)) \o " km/h"
                   \o (IF wind_gusts # None /\ Val(wind_gusts) > Val(wind_speed)
                       THEN " (gusting to " \o Kmh(Val(wind_gusts)) \o " km/h)" ELSE "")
              ELSE "Wind speed unavailable",
          precipitation |-> IF rain_prob # None THEN StrInt(rain_prob) \o "% chance of rain"
                            ELSE "Rain probability unavailable",
          \* the trailing optional blocks: None when the block is left out
          summary |-> IF summary # None /\ Val(summary) # "" THEN summary ELSE None,
          details |-> web_url ]

-----------------------------------------------------------------------------
(* The provider's responses.  An httpx call ends in a transport error (a    *)
(* timeout included), an error status (raise_for_status), a body that is   *)
(* not JSON (response.json), or a decoded body.                            *)

HttpFailures == {"transport", "status", "json"}

\* try-body of get_location once the response is in: None for every failure
\* (the except clause returns None), for a body without "results" and for an
\* empty result list
get_location(response) ==
    IF response.kind \in HttpFailures THEN None
    ELSE LET found == GetD(response.data, "results", <<>>)
         IN  IF found = <<>> THEN None ELSE get_best_location(found)

\* weather_data.get(str(location_id)) followed by "if not current_weather: raise"
\* a lookup that lets a missing entry through as an empty dict
extract_current_lenient(data, location_id) ==
    LET current_weather == Get(data, StrInt(location_id))
    IN  IF current_weather = None THEN Returned(EmptyDict)
        ELSE Returned(Val(current_weather))

extract_current(data, location_id) ==
    LET current_weather == Get(data, StrInt(location_id))
    IN  IF current_weather = None \/ DOMAIN Val(current_weather) = {} THEN Raised
        ELSE Returned(Val(current_weather))

Take(seq, n) == SubSeq(seq, 1, IF Len(seq) < n THEN Len(seq) ELSE n)

\* a slice that keeps every day the provider sent
slice_days_all(days) == days

\* [:self.DAYS_TO_FORECAST]
slice_days(days) == Take(days, DAYS_TO_FORECAST)

\* weather_data.get(str(location_id), [])[:3] followed by
\* "if not forecast_data: raise"; slicing a null entry raises too
extract_forecast(data, location_id) ==
    LET entry == GetD(data, StrInt(location_id), Some(<<>>))
    IN  IF entry = None THEN Raised
        ELSE IF slice_days(Val(entry)) = <<>> THEN Raised
        ELSE Returned(slice_days(Val(entry)))

ScrapeFailures == {"transport", "status", "parse", "no_div"}

\* a scraper whose failures escape to the caller
get_weather_summary_raising(response) ==
    IF response.kind \in ScrapeFailures THEN Raised
    ELSE Returned(Some(response.text))

\* get_weather_summary: the stripped text of the first status block, None
\* when the block is not on the page or anything raised
get_weather_summary(response) ==
    IF response.kind \in ScrapeFailures THEN Returned(None)
    ELSE Returned(Some(response.text))

-----------------------------------------------------------------------------
(* Inputs of the handlers *)

Tasks == 1..NumTasks

\* the commands run() registers, and the handler each is bound to
CommandNames == {"start", "help", "w", "weather", "wf", "forecast"}
HandlerOf(name) ==
    CASE name = "start" -> "start"
      [] name = "help" -> "help"
      [] name \in {"w", "weather"} -> "weather"
      [] name \in {"wf", "forecast"} -> "weather_forecast"
      [] OTHER -> "none"

\* time.time() - update.message.date.timestamp(), in whole seconds
Ages == {0, OLD_MESSAGE_SECONDS_AGE, OLD_MESSAGE_SECONDS_AGE + 1}

\* context.args: the words after the command word
ArgChoices == {<<>>, <<"New", "Town">>}

Commands == [name : CommandNames, age : Ages, args : ArgChoices]
NoCommand == [name |-> "none", age |-> 0, args |-> <<>>]

\* the candidates a search may return: two full ones of the same preference,
\* one without an id, one without a name
HandlerCandidates ==
    { MkLocation(Some(101), Some(<<"New", "Town">>), "1"),
      MkLocation(Some(103), Some(<<"Newport">>), "1"),
      MkLocation(None, Some(<<"Newton">>), "2"),
      MkLocation(Some(102), None, "null") }

SearchResponses ==
    [kind : HttpFailures]
    \cup {[kind |-> "ok", data |-> EmptyDict]}
    \cup {[kind |-> "ok", data |-> [results |-> l]] :
            l \in SeqsUpTo(HandlerCandidates, MaxLocs)}

\* "recent" payloads: a dict keyed by the location id as a string
CurrentChoices ==
    { [temp |-> Some(20), flike |-> Some(18), rhum |-> Some(50), rainp |-> Some(10),
       winds |-> Some(2), maxwind |-> Some(5), symb |-> Some("d100")],
      [temp |-> None, symb |-> Some("zzzz")],
      EmptyDict }

RecentResponses(location_id) ==
    [kind : HttpFailures]
    \cup {[kind |-> "missing_key", data |-> EmptyDict]}
    \cup {[kind |-> "ok", data |-> (StrInt(location_id) :> Some(c))] :
            c \in CurrentChoices}

\* "favorites" payloads: the day list, chronological; day k may carry a
\* null rainp (k = 0: no day does)
ForecastDay(i, null_day) ==
    [date |-> Some(<<2024, 3, 3 + i>>), tmin |-> Some(2), tmax |-> Some(9),
     symb |-> Some("d100"),
     rainp |-> IF i = null_day THEN None ELSE Some(10 * (i - 1))]

DayLists ==
    UNION { { [i \in 1..n |-> ForecastDay(i, k)] : k \in 0..n } : n \in 0..MaxDays }

FavoritesResponses(location_id) ==
    [kind : HttpFailures]
    \cup {[kind |-> "missing_key", data |-> EmptyDict]}
    \cup {[kind |-> "ok", data |-> (StrInt(location_id) :> Some(l))] : l \in DayLists}

WebResponses ==
    [kind : ScrapeFailures]
    \cup {[kind |-> "ok", text |-> x] : x \in {"", "Sunny spells"}}

-----------------------------------------------------------------------------
(* Reply texts *)

WelcomeText == "Welcome to the Weather Bot! Type /help for commands."
HELP_TEXT == "Available commands: /w <location> - Get current weather /wf <location> - Get weather forecast /help - Show this help message"
UsageText == "Please provide a location. Example: /w London"
ErrorText == "Sorry, there was an error getting the weather data"

Plain(text) == [kind |-> "text", text |-> text]
NotFound(query) == Plain("Could not find location: " \o query)

-----------------------------------------------------------------------------
(* The event loop.  A task runs on the loop's one thread until it suspends  *)
(* at an await that waits for I/O (reply_text) or returns.  The provider    *)
(* calls are httpx.Client calls, which are synchronous: the task keeps the  *)
(* thread from the request until the response (or the timeout) is in.       *)

NoResp == [search |-> "none", data |-> "none", web |-> "none"]

WaitPcs == {"search_wait", "data_wait", "web_wait"}

Last(seq) == seq[Len(seq)]

\* await update.message.reply_text(msg): the send is started and the task
\* suspended until it completes
Reply(t, msg) ==
    /\ replies' = [replies EXCEPT ![t] = Append(@, msg)]
    /\ pc' = [pc EXCEPT ![t] = "reply_wait"]
    /\ running' = None
    /\ UNCHANGED calls

\* self.http_client.get(...) / self.web_client.get(...): the request is sent
\* and the thread blocks in the call
Request(t, endpoint, wait_pc) ==
    /\ calls' = [calls EXCEPT ![t] = Append(@, endpoint)]
    /\ pc' = [pc EXCEPT ![t] = wait_pc]
    /\ running' = Some(t)
    /\ UNCHANGED replies

\* return without a reply
Return(t) ==
    /\ pc' = [pc EXCEPT ![t] = "done"]
    /\ running' = None
    /\ UNCHANGED <<replies, calls>>

\* an error handler that sends the failed request again
Except_retry(t) ==
    IF calls[t] # <<>> /\ pc[t] \in WaitPcs
    THEN Request(t, Last(calls[t]), pc[t])
    ELSE Reply(t, Plain(ErrorText))

\* except Exception: reply_text("Sorry, there was an error ...")
Except(t) == Reply(t, Plain(ErrorText))

\* (time.time() - update.message.date.timestamp()) > OLD_MESSAGE_SECONDS_AGE
IsOldMessage(c) == c.age > OLD_MESSAGE_SECONDS_AGE

\* query = " ".join(context.args)
Query(c) == Join(c.args, " ")

\* a check that lets the empty query through
NoQuery_never(c) == FALSE

\* not query
NoQuery(c) == Query(c) = ""

-----------------------------------------------------------------------------
(* The dispatcher and the handlers *)

Init ==
    /\ pc = [t \in Tasks |-> "idle"]
    /\ cmd = [t \in Tasks |-> NoCommand]
    /\ replies = [t \in Tasks |-> <<>>]
    /\ calls = [t \in Tasks |-> <<>>]
    /\ resp = [t \in Tasks |-> NoResp]
    /\ location = [t \in Tasks |-> None]
    /\ weather_data = [t \in Tasks |-> None]
    /\ running = None
    /\ unit_pc = "off"
    /\ locations = <<>>
    /\ best_location = None
    /\ forecast_data = <<>>
    /\ forecast_response = None

\* a command arrives and the dispatcher creates the task that handles it
Dispatch(t) ==
    /\ running = None
    /\ pc[t] = "idle"
    /\ \E c \in Commands : cmd' = [cmd EXCEPT ![t] = c]
    /\ pc' = [pc EXCEPT ![t] = "start"]
    /\ UNCHANGED <<replies, calls, resp, location, weather_data, running>>
    /\ UNCHANGED unit_vars

\* start
Start(t) ==
    /\ running = None
    /\ pc[t] = "start"
    /\ HandlerOf(cmd[t].name) = "start"
    /\ Reply(t, Plain(WelcomeText))
    /\ UNCHANGED <<cmd, resp, location, weather_data>>
    /\ UNCHANGED unit_vars

\* help
Help(t) ==
    /\ running = None
    /\ pc[t] = "start"
    /\ HandlerOf(cmd[t].name) = "help"
    /\ Reply(t, Plain(HELP_TEXT))
    /\ UNCHANGED <<cmd, resp, location, weather_data>>
    /\ UNCHANGED unit_vars

\* weather / weather_forecast up to the first provider call: the age gate,
\* the query check, then get_location's search request
Enter(t) ==
    /\ running = None
    /\ pc[t] = "start"
    /\ HandlerOf(cmd[t].name) \in {"weather", "weather_forecast"}
    /\ IF IsOldMessage(cmd[t]) THEN Return(t)
       ELSE IF NoQuery(cmd[t]) THEN Reply(t, Plain(UsageText))
       ELSE Request(t, "search", "search_wait")
    /\ UNCHANGED <<cmd, resp, location, weather_data>>
    /\ UNCHANGED unit_vars

\* the search response is in: get_location returns, then the handler goes on
\* to the data request of its endpoint
SearchReturn(t) ==
    /\ pc[t] = "search_wait"
    /\ \E response \in SearchResponses :
         LET loc == get_location(response)
             kind == IF response.kind = "ok" /\ "results" \notin DOMAIN response.data
                     THEN "missing_key" ELSE response.kind
         IN  /\ resp' = [resp EXCEPT ![t].search = kind]
             /\ location' = [location EXCEPT ![t] = loc]
             /\ IF loc = None THEN Reply(t, NotFound(Query(cmd[t])))
                ELSE IF ~TruthyInt(Get(Val(loc), "id")) THEN Except(t)
                ELSE Request(t, IF HandlerOf(cmd[t].name) = "weather"
                                THEN "recent" ELSE "favorites", "data_wait")
    /\ UNCHANGED <<cmd, weather_data>>
    /\ UNCHANGED unit_vars

\* what weather sends once the summary is known
WeatherReply(t, data, summary) ==
    LET current == extract_current(data, Get(Val(location[t]), "id"))
    IN  IF current.raised THEN Except(t)
        ELSE Reply(t, format_weather_response(Val(location[t]), current.value, summary))

\* weather: the "recent" response is in
RecentReturn(t) ==
    /\ pc[t] = "data_wait"
    /\ HandlerOf(cmd[t].name) = "weather"
    /\ \E response \in RecentResponses(Get(Val(location[t]), "id")) :
         /\ resp' = [resp EXCEPT ![t].data = response.kind]
         /\ IF response.kind \in HttpFailures
            THEN Except(t) /\ UNCHANGED weather_data
            ELSE /\ weather_data' = [weather_data EXCEPT ![t] = Some(response.data)]
                 /\ IF extract_current(response.data,
                                       Get(Val(location[t]), "id")).raised
                    THEN Except(t)
                    ELSE IF build_foreca_web_url(Val(location[t])) # None
                    THEN Request(t, "web", "web_wait")
                    ELSE WeatherReply(t, response.data, None)
    /\ UNCHANGED <<cmd, location>>
    /\ UNCHANGED unit_vars

\* weather: the summary page is in
WebReturn(t) ==
    /\ pc[t] = "web_wait"
    /\ \E response \in WebResponses :
         LET summary == get_weather_summary(response)
         IN  /\ resp' = [resp EXCEPT ![t].web = response.kind]
             /\ IF summary.raised THEN Except(t)
                ELSE WeatherReply(t, Val(weather_data[t]), summary.value)
    /\ UNCHANGED <<cmd, location, weather_data>>
    /\ UNCHANGED unit_vars

\* weather_forecast: the "favorites" response is in
FavoritesReturn(t) ==
    /\ pc[t] = "data_wait"
    /\ HandlerOf(cmd[t].name) = "weather_forecast"
    /\ \E response \in FavoritesResponses(Get(Val(location[t]), "id")) :
         /\ resp' = [resp EXCEPT ![t].data = response.kind]
         /\ IF response.kind \in HttpFailures
            THEN Except(t) /\ UNCHANGED weather_data
            ELSE /\ weather_data' = [weather_data EXCEPT ![t] = Some(response.data)]
                 /\ LET days == extract_forecast(response.data,
                                                 Get(Val(location[t]), "id"))
                        text == format_forecast_response(Val(location[t]), days.value)
                    IN  IF days.raised THEN Except(t)
                        ELSE IF text.raised THEN Except(t)
                        ELSE Reply(t, text.value)
    /\ UNCHANGED <<cmd, location>>
    /\ UNCHANGED unit_vars

\* the send completed: the task resumes and its handler returns, which ends
\* the life of its locals
ReplyDone(t) ==
    /\ running = None
    /\ pc[t] = "reply_wait"
    /\ pc' = [pc EXCEPT ![t] = "done"]
    /\ location' = [location EXCEPT ![t] = None]
    /\ weather_data' = [weather_data EXCEPT ![t] = None]
    /\ UNCHANGED <<cmd, replies, calls, resp, running>>
    /\ UNCHANGED unit_vars

\* the dispatcher drops the finished task; nothing of the request is kept
Finish(t) ==
    /\ running = None
    /\ pc[t] = "done"
    /\ pc' = [pc EXCEPT ![t] = "idle"]
    /\ cmd' = [cmd EXCEPT ![t] = NoCommand]
    /\ replies' = [replies EXCEPT ![t] = <<>>]
    /\ calls' = [calls EXCEPT ![t] = <<>>]
    /\ resp' = [resp EXCEPT ![t] = NoResp]
    /\ UNCHANGED <<location, weather_data, running>>
    /\ UNCHANGED unit_vars

\* the steps of task t that start when the loop hands it the thread
Resume(t) == Start(t) \/ Help(t) \/ Enter(t) \/ ReplyDone(t)

\* Application.builder().token(...).build() keeps the dispatcher's default:
\* the next update is taken up when the handler of the last one has returned
DispatchNext(t) ==
    /\ \A u \in Tasks : pc[u] = "idle"
    /\ Dispatch(t)

Next ==
    \E t \in Tasks :
        \/ DispatchNext(t)
        \/ Start(t)
        \/ Help(t)
        \/ Enter(t)
        \/ SearchReturn(t)
        \/ RecentReturn(t)
        \/ WebReturn(t)
        \/ FavoritesReturn(t)
        \/ ReplyDone(t)
        \/ Finish(t)

Spec == Init /\ [][Next]_vars

\* the same handlers with one task per command, the tasks side by side on
\* the loop
NextTasks ==
    \E t \in Tasks :
        \/ Dispatch(t)
        \/ Start(t)
        \/ Help(t)
        \/ Enter(t)
        \/ SearchReturn(t)
        \/ RecentReturn(t)
        \/ WebReturn(t)
        \/ FavoritesReturn(t)
        \/ ReplyDone(t)
        \/ Finish(t)

SpecTasks == Init /\ [][NextTasks]_vars

-----------------------------------------------------------------------------
(* get_best_location on its own: every candidate list up to MaxLocs *)

IdleHandlers ==
    /\ pc = [t \in Tasks |-> "idle"]
    /\ cmd = [t \in Tasks |-> NoCommand]
    /\ replies = [t \in Tasks |-> <<>>]
    /\ calls = [t \in Tasks |-> <<>>]
    /\ resp = [t \in Tasks |-> NoResp]
    /\ location = [t \in Tasks |-> None]
    /\ weather_data = [t \in Tasks |-> None]
    /\ running = None

InitLoc ==
    /\ IdleHandlers
    /\ unit_pc = "best_call"
    /\ locations \in {LocationList(c) : c \in SeqsUpTo(PrefChoices, MaxLocs)}
    /\ best_location = None
    /\ forecast_data = <<>>
    /\ forecast_response = None

CallGetBestLocation ==
    /\ unit_pc = "best_call"
    /\ unit_pc' = "best_returned"
    /\ best_location' = get_best_location(locations)
    /\ UNCHANGED <<locations, forecast_data, forecast_response>>
    /\ UNCHANGED handler_vars

NextLoc == CallGetBestLocation

SpecLoc == InitLoc /\ [][NextLoc]_vars

-----------------------------------------------------------------------------
(* format_forecast_response on its own: every day list up to MaxFmtDays *)

\* a day's fields, each present, null or missing as the JSON allows
FmtDays ==
    { [tmin |-> Some(2), tmax |-> Some(9)] @@ date @@ rainp @@ symb :
        date \in {EmptyDict, [date |-> Some(<<2024, 3, 4>>)],
                  [date |-> Some(<<2024, 3, 5>>)]},
        rainp \in {EmptyDict, [rainp |-> None], [rainp |-> Some(0)],
                   [rainp |-> Some(1)], [rainp |-> Some(30)]},
        symb \in {[symb |-> Some("d100")], [symb |-> Some("zzzz")]} }

FmtLocation == MkLocation(Some(101), Some(<<"New", "Town">>), "1")

InitFmt ==
    /\ IdleHandlers
    /\ unit_pc = "format_call"
    /\ forecast_data \in SeqsUpTo(FmtDays, MaxFmtDays)
    /\ forecast_response = None
    /\ locations = <<>>
    /\ best_location = None

CallFormatForecast ==
    /\ unit_pc = "format_call"
    /\ unit_pc' = "formatted"
    /\ forecast_response' = Some(format_forecast_response(FmtLocation, forecast_data))
    /\ UNCHANGED <<locations, best_location, forecast_data>>
    /\ UNCHANGED handler_vars

NextFmt == CallFormatForecast

SpecFmt == InitFmt /\ [][NextFmt]_vars

-----------------------------------------------------------------------------
(* Claims about get_best_location (SpecLoc) *)

Preference(loc) == Get(loc, "preference")
Positive(loc) == Preference(loc) # None /\ Val(Preference(loc)) > 0
BestReturned == unit_pc = "best_returned"

\* the first position that holds the least positive preference
FirstMinPositive(locs) ==
    CHOOSE i \in 1..Len(locs) :
        /\ Positive(locs[i])
        /\ \A j \in 1..Len(locs) :
             Positive(locs[j]) =>
                /\ Val(Preference(locs[i])) <= Val(Preference(locs[j]))
                /\ j < i => Val(Preference(locs[i])) < Val(Preference(locs[j]))

\* C1: when some candidate has preference > 0, the candidate returned has the
\* least positive preference of the list and is the first in list order that
\* has it; a candidate whose preference is missing, null, 0 or negative is
\* not returned.
C1_MinPositivePreference ==
    (BestReturned /\ \E i \in 1..Len(locations) : Positive(locations[i])) =>
        /\ best_location = Some(locations[FirstMinPositive(locations)])
        /\ Positive(Val(best_location))

\* C1 witness: a non-positive candidate first, then two that share the least
\* positive preference; the earlier of the two is returned
C1_Witness ==
    /\ BestReturned
    /\ Len(locations) = 3
    /\ Preference(locations[1]) = Some(0)
    /\ Preference(locations[2]) = Some(1)
    /\ Preference(locations[3]) = Some(1)
    /\ best_location = Some(locations[2])

\* C2: when the list is not empty and no candidate has preference > 0, the
\* first element of the list as given is returned.
C2_FallbackFirst ==
    (BestReturned /\ locations # <<>>
        /\ \A i \in 1..Len(locations) : ~Positive(locations[i])) =>
        best_location = Some(locations[1])

\* C2 witness: three candidates, null, negative and missing preference
C2_Witness ==
    /\ BestReturned
    /\ Len(locations) = 3
    /\ Preference(locations[1]) = None /\ "preference" \in DOMAIN locations[1]
    /\ Preference(locations[2]) = Some(-1)
    /\ "preference" \notin DOMAIN locations[3]
    /\ best_location = Some(locations[1])

-----------------------------------------------------------------------------
(* Claims about the handlers (Spec, SpecTasks) *)

IsWeatherCmd(t) == cmd[t].name \in {"w", "weather", "wf", "forecast"}
Handled(t) == pc[t] \in {"reply_wait", "done"}
ApiFailures == HttpFailures \cup {"missing_key"}

\* C3 as stated: a failure of either provider API makes the one reply the
\* generic error message.
C3_AnyFailureGeneric ==
    \A t \in Tasks :
        (IsWeatherCmd(t)
            /\ (resp[t].search \in ApiFailures \/ resp[t].data \in ApiFailures)) =>
            (Handled(t) /\ replies[t] = <<Plain(ErrorText)>>)

\* C3 amended: a failure of the weather-data API makes the one reply the
\* generic error message; a failure of the location-search API is swallowed
\* by get_location and makes the one reply "Could not find location: <query>".
C3_FailureReplies ==
    \A t \in Tasks :
        /\ (IsWeatherCmd(t) /\ resp[t].data \in ApiFailures) =>
              (Handled(t) /\ replies[t] = <<Plain(ErrorText)>>)
        /\ (IsWeatherCmd(t) /\ resp[t].search \in ApiFailures) =>
              (Handled(t) /\ replies[t] = <<NotFound(Query(cmd[t]))>>)

\* C3 witness: the payload of /w lacks the entry of the location id and the
\* generic message went out
C3_Witness ==
    \E t \in Tasks :
        /\ cmd[t].name = "w"
        /\ resp[t].search = "ok"
        /\ resp[t].data = "missing_key"
        /\ pc[t] = "reply_wait"
        /\ replies[t] = <<Plain(ErrorText)>>

\* C4: a command older than OLD_MESSAGE_SECONDS_AGE gets no reply and makes
\* no provider call, whichever command it is.
C4_OldCommandDropped ==
    \A t \in Tasks :
        (pc[t] # "idle" /\ IsOldMessage(cmd[t])) =>
            (replies[t] = <<>> /\ calls[t] = <<>>)

\* C5: when the summary page fails in any way, get_weather_summary returns
\* None without raising and the one reply is the formatted current-weather
\* message without its summary block, not the error message.
C5_ScrapeFailureDegrades ==
    /\ \A k \in ScrapeFailures : get_weather_summary([kind |-> k]) = Returned(None)
    /\ \A t \in Tasks :
          resp[t].web \in ScrapeFailures =>
             /\ Handled(t)
             /\ Len(replies[t]) = 1
             /\ replies[t][1].kind = "weather"
             /\ replies[t][1].summary = None
             /\ pc[t] = "reply_wait" =>
                  replies[t][1] =
                      format_weather_response(
                          Val(location[t]),
                          Val(Val(weather_data[t])[StrInt(Get(Val(location[t]), "id"))]),
                          None)

\* C5 witness: the status block is not on the page, and the reply is the
\* weather message with its link and no summary
C5_Witness ==
    \E t \in Tasks :
        /\ resp[t].web = "no_div"
        /\ pc[t] = "reply_wait"
        /\ replies[t][1].kind = "weather"
        /\ replies[t][1].summary = None
        /\ replies[t][1].details # None

\* C6 as stated: a /w, /weather, /wf or /forecast command without a location
\* argument is answered with the usage hint and makes no provider call.
C6_NoArgsUsage ==
    \A t \in Tasks :
        (IsWeatherCmd(t) /\ cmd[t].args = <<>>) =>
            /\ calls[t] = <<>>
            /\ pc[t] = "done" => replies[t] = <<Plain(UsageText)>>

\* C6 amended: such a command makes no provider call; it is answered with the
\* usage hint when it is not older than OLD_MESSAGE_SECONDS_AGE, and is
\* dropped without a reply when it is older.
C6_FreshNoArgsUsage ==
    \A t \in Tasks :
        (IsWeatherCmd(t) /\ cmd[t].args = <<>>) =>
            /\ calls[t] = <<>>
            /\ (Handled(t) /\ ~IsOldMessage(cmd[t])) => replies[t] = <<Plain(UsageText)>>
            /\ (pc[t] = "done" /\ IsOldMessage(cmd[t])) => replies[t] = <<>>

\* C6 witness: /forecast without arguments, just in time, answered with the hint
C6_Witness ==
    \E t \in Tasks :
        /\ cmd[t].name = "forecast"
        /\ cmd[t].args = <<>>
        /\ cmd[t].age = OLD_MESSAGE_SECONDS_AGE
        /\ pc[t] = "reply_wait"
        /\ replies[t] = <<Plain(UsageText)>>
        /\ calls[t] = <<>>

Count(seq, x) == Cardinality({i \in 1..Len(seq) : seq[i] = x})
Endpoints == {"search", "recent", "favorites", "web"}

\* C7: within one command each endpoint is requested at most once; after a
\* failed search or data call the command has sent exactly one reply and the
\* failed call is the last provider call it made.
C7_NoRetry ==
    \A t \in Tasks :
        /\ \A e \in Endpoints : Count(calls[t], e) <= 1
        /\ resp[t].search \in HttpFailures =>
              (Handled(t) /\ Len(replies[t]) = 1 /\ calls[t] = <<"search">>)
        /\ resp[t].data \in ApiFailures =>
              /\ Handled(t)
              /\ Len(replies[t]) = 1
              /\ Len(calls[t]) = 2
              /\ calls[t][2] \in {"recent", "favorites"}

\* C7 witness: the forecast request timed out; two calls, one reply
C7_Witness ==
    \E t \in Tasks :
        /\ resp[t].data = "transport"
        /\ calls[t] = <<"search", "favorites">>
        /\ replies[t] = <<Plain(ErrorText)>>
        /\ pc[t] = "done"

\* C8: while a provider call of one task is pending, every other task that
\* is ready to run (created and not started, or with its send completed) can
\* take its step.
C8_SiblingsNotStalled ==
    \A t \in Tasks : \A u \in Tasks \ {t} :
        (pc[t] \in WaitPcs /\ pc[u] \in {"start", "reply_wait"}) => ENABLED Resume(u)

\* the day list the provider sent for the resolved location id
Provided(t) == Val(Val(weather_data[t])[StrInt(Get(Val(location[t]), "id"))])
Min(a, b) == IF a < b THEN a ELSE b

\* C9: the days of a forecast reply are the first min(3, n) days of the n
\* the provider sent, in the provider's order.
C9_FirstThreeDaysInOrder ==
    \A t \in Tasks :
        (HandlerOf(cmd[t].name) = "weather_forecast" /\ pc[t] = "reply_wait"
            /\ resp[t].data = "ok") =>
            LET n == Len(Provided(t))
                k == Min(DAYS_TO_FORECAST, n)
                m == replies[t][1]
            IN  /\ Len(replies[t]) = 1
                /\ m.kind \in {"forecast", "text"}
                /\ m.kind = "forecast" =>
                      /\ Len(m.lines) = k
                      /\ \A i \in 1..k : m.lines[i] = ForecastLine(Provided(t)[i], i)
                /\ m.kind = "text" =>
                      (k = 0 \/ \E i \in 1..k : DayRaises(Provided(t)[i]))

\* C9 witness: the provider sent more than three days and three were formatted
C9_Witness ==
    \E t \in Tasks :
        /\ HandlerOf(cmd[t].name) = "weather_forecast"
        /\ pc[t] = "reply_wait"
        /\ resp[t].data = "ok"
        /\ Len(Provided(t)) > DAYS_TO_FORECAST
        /\ replies[t][1].kind = "forecast"
        /\ Len(replies[t][1].lines) = DAYS_TO_FORECAST

-----------------------------------------------------------------------------
(* Claim about format_forecast_response (SpecFmt) *)

\* the note a day's line is to carry
RainNote(day) ==
    LET rainp == Get(day, "rainp")
    IN  IF rainp # None /\ Val(rainp) > 0 THEN ToString(Val(rainp)) \o "% chance of rain"
        ELSE ""

\* C10: for a non-empty list of dated days the message is produced, and each
\* day's line carries the rain note exactly when the day's rainp is > 0;
\* with rainp zero or absent the note is left out.
C10_RainNoteIffPositive ==
    (unit_pc = "formatted" /\ forecast_data # <<>>
        /\ \A i \in 1..Len(forecast_data) : Get(forecast_data[i], "date") # None) =>
        /\ ~Val(forecast_response).raised
        /\ Val(forecast_response).value.kind = "forecast"
        /\ \A i \in 1..Len(forecast_data) :
              Val(forecast_response).value.lines[i].rain_str = RainNote(forecast_data[i])

====
